---- MODULE Spec2Model ----
(***************************************************************************)
(* A model of the mail service: request validation (validation.py), the    *)
(* send pipeline and history store (mail_service.py) and the HTTP handlers *)
(* (api.py).  Texts are TLA+ strings handled character by character, so    *)
(* trimming, lower-casing and substring search are computed, not assumed.  *)
(***************************************************************************)
EXTENDS Integers, Sequences, FiniteSets, TLC

(***************************************************************************)
(* Python values                                                           *)
(***************************************************************************)

\* Optional[T]: None is the empty tuple, a present value v is <<v>>.
None == <<>>

Some(v) == <<v>>

\* Truth value of an Optional[List]: None and [] are both falsy.
Truthy(o) == o # None /\ Len(o[1]) > 0

\* The list behind an Optional[List] that is truthy, [] otherwise.
ListOf(o) == IF Truthy(o) THEN o[1] ELSE <<>>

(***************************************************************************)
(* Python string operations                                                *)
(***************************************************************************)

\* k in s
Contains(s, k) ==
    \E i \in 1..(Len(s) - Len(k) + 1) : SubSeq(s, i, i + Len(k) - 1) = k

UpperChars == "ABCDEFGHIJKLMNOPQRSTUVWXYZ"

LowerChars == "abcdefghijklmnopqrstuvwxyz"

LowerChar(c) ==
    IF \E i \in 1..Len(UpperChars) : SubSeq(UpperChars, i, i) = c
    THEN LET i == CHOOSE j \in 1..Len(UpperChars) : SubSeq(UpperChars, j, j) = c
         IN  SubSeq(LowerChars, i, i)
    ELSE c

\* s.lower()
RECURSIVE PyLower(_)
PyLower(s) ==
    IF Len(s) = 0 THEN ""
    ELSE IF Len(s) = 1 THEN LowerChar(s)
    ELSE LET h == Len(s) \div 2
         IN  PyLower(SubSeq(s, 1, h)) \o PyLower(SubSeq(s, h + 1, Len(s)))

Whitespace == {" ", "\t", "\n"}

RECURSIVE LStrip(_)
LStrip(s) ==
    IF Len(s) > 0 /\ SubSeq(s, 1, 1) \in Whitespace
    THEN LStrip(SubSeq(s, 2, Len(s)))
    ELSE s

RECURSIVE RStrip(_)
RStrip(s) ==
    IF Len(s) > 0 /\ SubSeq(s, Len(s), Len(s)) \in Whitespace
    THEN RStrip(SubSeq(s, 1, Len(s) - 1))
    ELSE s

\* s.strip()
PyStrip(s) == RStrip(LStrip(s))

\* Positions of character c in s.
CharPositions(s, c) == {i \in 1..Len(s) : SubSeq(s, i, i) = c}

SetMax(S) == CHOOSE x \in S : \A y \in S : y <= x

SetMin(S) == CHOOSE x \in S : \A y \in S : x <= y

\* sep.join(parts)
RECURSIVE PyJoin(_, _)
PyJoin(sep, parts) ==
    IF parts = <<>> THEN ""
    ELSE IF Len(parts) = 1 THEN parts[1]
    ELSE parts[1] \o sep \o PyJoin(sep, Tail(parts))

\* repr() of a str without quotes inside, and of a list of such strings.
ReprStr(s) == "'" \o s \o "'"

ReprList(l) == "[" \o PyJoin(", ", [i \in 1..Len(l) |-> ReprStr(l[i])]) \o "]"

(***************************************************************************)
(* validation.py                                                           *)
(***************************************************************************)

\* MAX_ATTACHMENT_SIZE = 10 * 1024 * 1024
MAX_ATTACHMENT_SIZE == 10 * 1024 * 1024

\* The keys of ALLOWED_MIME_TYPES.
ALLOWED_MIME_TYPES ==
    {".pdf", ".doc", ".docx", ".xls", ".xlsx", ".jpg", ".jpeg", ".png", ".gif", ".txt"}

\* ValidationResult(is_valid, errors).  errors is one of three shapes:
\*   "dict_list": {key: [msg, ...]}     (address and attachment validation)
\*   "dict_str":  {key: msg}            (a caller-built result)
\*   "pydantic":  [{loc, msg, type}...] (ValidationError.errors())
\*   "empty":     {}
ValidationResult(is_valid, errors) == [is_valid |-> is_valid, errors |-> errors]

NoErrors == [shape |-> "empty", key |-> "", msgs |-> <<>>]

DictListErrors(key, msgs) == [shape |-> "dict_list", key |-> key, msgs |-> msgs]

DictStrErrors(key, msg) == [shape |-> "dict_str", key |-> key, msgs |-> <<msg>>]

PydanticErrors(errs) == [shape |-> "pydantic", key |-> "", msgs |-> errs]

ReprPydanticError(e) ==
    "{'loc': ('" \o e.loc \o "',), 'msg': " \o ReprStr(e.msg)
        \o ", 'type': " \o ReprStr(e.type) \o "}"

\* str(self.errors)
StrErrors(errors) ==
    CASE errors.shape = "empty" -> "{}"
      [] errors.shape = "dict_list" ->
            "{" \o ReprStr(errors.key) \o ": " \o ReprList(errors.msgs) \o "}"
      [] errors.shape = "dict_str" ->
            "{" \o ReprStr(errors.key) \o ": " \o ReprStr(errors.msgs[1]) \o "}"
      [] errors.shape = "pydantic" ->
            "[" \o PyJoin(", ", [i \in 1..Len(errors.msgs) |->
                                    ReprPydanticError(errors.msgs[i])]) \o "]"

\* The status raise_if_invalid chooses from the lower-cased error text.
StatusForText(text) ==
    IF Contains(text, "email") THEN 422
    ELSE IF Contains(text, "not found") THEN 404
    ELSE IF Contains(text, "unauthorized") \/ Contains(text, "forbidden") THEN 401
    ELSE IF Contains(text, "too large") \/ Contains(text, "size") THEN 413
    ELSE IF Contains(text, "unsupported") \/ Contains(text, "media type") THEN 415
    ELSE 422

\* raise_if_invalid searching the error text without lower-casing it.
RaiseIfInvalidCaseSensitive(result) ==
    IF ~result.is_valid THEN <<StatusForText(StrErrors(result.errors))>> ELSE <<>>

\* ValidationResult.raise_if_invalid: the sequence of HTTP errors raised,
\* empty when nothing is raised.
raise_if_invalid(result) ==
    IF ~result.is_valid
    THEN <<StatusForText(PyLower(StrErrors(result.errors)))>>
    ELSE <<>>

\* email_validator.validate_email(email, check_deliverability=False): the
\* reason the address is rejected, "" when it is accepted.
AddressFault(email) ==
    LET ats == CharPositions(email, "@")
    IN  IF Cardinality(ats) # 1
        THEN "The email address is not valid. It must have exactly one @-sign."
        ELSE LET at == SetMin(ats)
                 domain == SubSeq(email, at + 1, Len(email))
             IN  IF at = 1 THEN "There must be something before the @-sign."
                 ELSE IF Len(domain) = 0 THEN "There must be something after the @-sign."
                 ELSE IF Contains(email, " ")
                      THEN "The email address contains invalid characters."
                 ELSE IF CharPositions(domain, ".") = {}
                      THEN "The part after the @-sign is not valid. It should have a period."
                 ELSE IF SubSeq(domain, 1, 1) = "." \/ SubSeq(domain, Len(domain), Len(domain)) = "."
                      THEN "An email address cannot have a period next to the @-sign or at the end."
                 ELSE ""

\* AddressErrorsFrom giving up after the first address it rejects.
RECURSIVE AddressErrorsFirstOnly(_, _)
AddressErrorsFirstOnly(emails, i) ==
    IF i > Len(emails) THEN <<>>
    ELSE IF AddressFault(emails[i]) # ""
         THEN <<"Invalid email at position " \o ToString(i - 1) \o ": " \o emails[i]
                   \o " - " \o AddressFault(emails[i])>>
         ELSE AddressErrorsFirstOnly(emails, i + 1)

\* The loop of validate_email_addresses from the i-th address on (i from
\* 1; enumerate counts from 0).
RECURSIVE AddressErrorsFrom(_, _)
AddressErrorsFrom(emails, i) ==
    IF i > Len(emails) THEN <<>>
    ELSE (IF AddressFault(emails[i]) # ""
          THEN <<"Invalid email at position " \o ToString(i - 1) \o ": " \o emails[i]
                    \o " - " \o AddressFault(emails[i])>>
          ELSE <<>>) \o AddressErrorsFrom(emails, i + 1)

validate_email_addresses(emails) ==
    LET errors == AddressErrorsFrom(emails, 1)
    IN  IF errors # <<>>
        THEN ValidationResult(FALSE, DictListErrors("email_validation", errors))
        ELSE ValidationResult(TRUE, NoErrors)

\* f"{n / 1024 / 1024:.1f}": one decimal, rounded half to even.
FormatMB(n) ==
    LET unit == 1024 * 1024
        q == (n * 10) \div unit
        r == (n * 10) % unit
        tenths == IF 2 * r > unit \/ (2 * r = unit /\ q % 2 = 1) THEN q + 1 ELSE q
    IN  ToString(tenths \div 10) \o "." \o ToString(tenths % 10)

\* os.path.splitext(p)[1]
SplitExt(p) ==
    LET slashes == CharPositions(p, "/")
        sep == IF slashes = {} THEN 0 ELSE SetMax(slashes)
        dots == {i \in CharPositions(p, ".") : i > sep}
    IN  IF dots = {} THEN ""
        ELSE LET d == SetMax(dots)
             IN  IF \E i \in (sep + 1)..(d - 1) : SubSeq(p, i, i) # "."
                 THEN SubSeq(p, d, Len(p))
                 ELSE ""

\* AttachmentErrors refusing a file of exactly MAX_ATTACHMENT_SIZE bytes.
AttachmentErrorsAtLimit(path, files) ==
    IF ~files[path].exists
    THEN <<"Attachment not found: " \o path>>
    ELSE (IF files[path].size >= MAX_ATTACHMENT_SIZE
          THEN <<"Attachment too large: " \o path \o " (" \o FormatMB(files[path].size)
                    \o "MB > " \o FormatMB(MAX_ATTACHMENT_SIZE) \o "MB)">>
          ELSE <<>>)
         \o (IF SplitExt(PyLower(path)) \notin ALLOWED_MIME_TYPES
             THEN <<"Unsupported file type: " \o SplitExt(PyLower(path)) \o " for " \o path>>
             ELSE <<>>)

\* The errors one attachment path adds (one loop iteration).
AttachmentErrors(path, files) ==
    IF ~files[path].exists
    THEN <<"Attachment not found: " \o path>>
    ELSE (IF files[path].size > MAX_ATTACHMENT_SIZE
          THEN <<"Attachment too large: " \o path \o " (" \o FormatMB(files[path].size)
                    \o "MB > " \o FormatMB(MAX_ATTACHMENT_SIZE) \o "MB)">>
          ELSE <<>>)
         \o (IF SplitExt(PyLower(path)) \notin ALLOWED_MIME_TYPES
             THEN <<"Unsupported file type: " \o SplitExt(PyLower(path)) \o " for " \o path>>
             ELSE <<>>)

\* AttachmentErrorsAll leaving the loop at the first path with an error.
RECURSIVE AttachmentErrorsStopAtFirst(_, _)
AttachmentErrorsStopAtFirst(attachments, files) ==
    IF attachments = <<>> THEN <<>>
    ELSE IF AttachmentErrors(Head(attachments), files) # <<>>
         THEN AttachmentErrors(Head(attachments), files)
         ELSE AttachmentErrorsStopAtFirst(Tail(attachments), files)

RECURSIVE AttachmentErrorsAll(_, _)
AttachmentErrorsAll(attachments, files) ==
    IF attachments = <<>> THEN <<>>
    ELSE AttachmentErrors(Head(attachments), files)
            \o AttachmentErrorsAll(Tail(attachments), files)

validate_attachments(attachments, files) ==
    LET errors == AttachmentErrorsAll(attachments, files)
    IN  IF errors # <<>>
        THEN ValidationResult(FALSE, DictListErrors("attachment_validation", errors))
        ELSE ValidationResult(TRUE, NoErrors)

(***************************************************************************)
(* models.py: EmailRequest                                                 *)
(***************************************************************************)

\* Field(..., max_length=200) of subject.
SUBJECT_MAX_LENGTH == 200

\* A request body as the client sent it: to, subject and body are None when
\* the field is missing; cc, bcc and attachments are Optional lists.
RawRequest(to, cc, bcc, subject, body, is_html, attachments) ==
    [to |-> to, cc |-> cc, bcc |-> bcc, subject |-> subject, body |-> body,
     is_html |-> is_html, attachments |-> attachments]

FieldError(loc, msg, type) == [loc |-> loc, msg |-> msg, type |-> type]

\* EmailStr items of one list field.
RECURSIVE EmailStrErrors(_, _)
EmailStrErrors(loc, emails) ==
    IF emails = <<>> THEN <<>>
    ELSE (IF AddressFault(Head(emails)) # ""
          THEN <<FieldError(loc, "value is not a valid email address: "
                                    \o AddressFault(Head(emails)), "value_error")>>
          ELSE <<>>) \o EmailStrErrors(loc, Tail(emails))

\* to: List[EmailStr] = Field(...) and validate_recipients.
ToErrors(to) ==
    IF to = None THEN <<FieldError("to", "Field required", "missing")>>
    ELSE IF EmailStrErrors("to", to[1]) # <<>> THEN EmailStrErrors("to", to[1])
    ELSE IF Len(to[1]) = 0
         THEN <<FieldError("to", "Value error, At least one recipient must be provided",
                           "value_error")>>
    ELSE <<>>

\* subject: str = Field(..., min_length=1, max_length=200) and validate_subject.
SubjectErrors(subject) ==
    IF subject = None THEN <<FieldError("subject", "Field required", "missing")>>
    ELSE IF Len(subject[1]) < 1
         THEN <<FieldError("subject", "String should have at least 1 character",
                           "string_too_short")>>
    ELSE IF Len(subject[1]) > SUBJECT_MAX_LENGTH
         THEN <<FieldError("subject", "String should have at most 200 characters",
                           "string_too_long")>>
    ELSE IF PyStrip(subject[1]) = ""
         THEN <<FieldError("subject", "Value error, Subject cannot be empty", "value_error")>>
    ELSE <<>>

\* body: str = Field(..., min_length=1) and validate_body.
BodyErrors(body) ==
    IF body = None THEN <<FieldError("body", "Field required", "missing")>>
    ELSE IF Len(body[1]) < 1
         THEN <<FieldError("body", "String should have at least 1 character",
                           "string_too_short")>>
    ELSE IF PyStrip(body[1]) = ""
         THEN <<FieldError("body", "Value error, Body cannot be empty", "value_error")>>
    ELSE <<>>

\* The errors of EmailRequest(**data), in field order.
ModelErrors(data) ==
    ToErrors(data.to)
        \o EmailStrErrors("cc", IF data.cc = None THEN <<>> ELSE data.cc[1])
        \o EmailStrErrors("bcc", IF data.bcc = None THEN <<>> ELSE data.bcc[1])
        \o SubjectErrors(data.subject)
        \o BodyErrors(data.body)

\* EmailRequest(**data) when it validates: subject and body are stripped.
EmailRequest(data) ==
    [to |-> data.to[1], cc |-> data.cc, bcc |-> data.bcc,
     subject |-> PyStrip(data.subject[1]), body |-> PyStrip(data.body[1]),
     is_html |-> data.is_html, attachments |-> data.attachments]

\* email_request.dict()
DictOf(request) ==
    RawRequest(Some(request.to), request.cc, request.bcc, Some(request.subject),
               Some(request.body), request.is_html, request.attachments)

\* validate_email_request looking at the attachments before anything else.
ValidateAttachmentsFirst(data, files) ==
    IF data.attachments # None /\ Len(data.attachments[1]) > 0
          /\ ~validate_attachments(data.attachments[1], files).is_valid
    THEN validate_attachments(data.attachments[1], files)
    ELSE IF ModelErrors(data) # <<>>
    THEN ValidationResult(FALSE, PydanticErrors(ModelErrors(data)))
    ELSE ValidationResult(TRUE, NoErrors)

\* validate_email_request(data), reading the files as they are now.
validate_email_request(data, files) ==
    IF ModelErrors(data) # <<>>
    THEN ValidationResult(FALSE, PydanticErrors(ModelErrors(data)))
    ELSE LET email_request == EmailRequest(data)
             all_emails == email_request.to \o ListOf(email_request.cc)
                               \o ListOf(email_request.bcc)
             email_validation == validate_email_addresses(all_emails)
         IN  IF ~email_validation.is_valid THEN email_validation
             ELSE IF Truthy(email_request.attachments)
                     /\ ~validate_attachments(email_request.attachments[1], files).is_valid
                  THEN validate_attachments(email_request.attachments[1], files)
             ELSE ValidationResult(TRUE, NoErrors)

\* The paths validate_email_request asks the file system about: those of
\* validate_attachments, which is called only after EmailRequest(**data)
\* and validate_email_addresses passed (lines 96-98).
ExaminedPaths(data, files) ==
    IF ModelErrors(data) # <<>> THEN <<>>
    ELSE IF ~validate_email_addresses(
                EmailRequest(data).to \o ListOf(EmailRequest(data).cc)
                    \o ListOf(EmailRequest(data).bcc)).is_valid
    THEN <<>>
    ELSE ListOf(EmailRequest(data).attachments)

(***************************************************************************)
(* mail_service.py: pure parts                                             *)
(***************************************************************************)

\* s.split(sep)
RECURSIVE PySplit(_, _)
PySplit(s, sep) ==
    IF ~Contains(s, sep) THEN <<s>>
    ELSE LET i == SetMin({j \in 1..(Len(s) - Len(sep) + 1) :
                            SubSeq(s, j, j + Len(sep) - 1) = sep})
         IN  <<SubSeq(s, 1, i - 1)>> \o PySplit(SubSeq(s, i + Len(sep), Len(s)), sep)

\* settings.from_email and settings.from_name
from_email == "info@bionicaisolutions.com"

from_name == "Bionic AI Solutions"

\* An identifier drawn once, when the module is loaded, and used by every send.
Uuid4AtImport(n) == "uuid-" \o ToString(0)

\* str(uuid.uuid4()): the n-th identifier drawn.
Uuid4(n) == "uuid-" \o ToString(n)

\* EmailHistory created as sent before the relay was contacted.
EmailHistoryBornSent(message_id, request, now) ==
    [message_id |-> message_id, status |-> "sent", to |-> request.to,
     cc |-> request.cc, bcc |-> request.bcc, subject |-> request.subject,
     body |-> request.body, is_html |-> request.is_html, sent_at |-> None,
     error_message |-> None, created_at |-> now]

\* EmailHistory(message_id=..., status=PENDING, ...), created at time now.
EmailHistory(message_id, request, now) ==
    [message_id |-> message_id, status |-> "pending", to |-> request.to,
     cc |-> request.cc, bcc |-> request.bcc, subject |-> request.subject,
     body |-> request.body, is_html |-> request.is_html, sent_at |-> None,
     error_message |-> None, created_at |-> now]

EmailResponse(message_id, status, request, sent_at, error_message) ==
    [message_id |-> message_id, status |-> status, to |-> request.to,
     subject |-> request.subject, sent_at |-> sent_at, error_message |-> error_message]

\* One iteration of _add_attachments: the part attached for file_path, none
\* when open() raises (file missing, or unreadable).
AttachmentPart(file_path, files) ==
    IF ~files[file_path].exists \/ ~files[file_path].readable THEN <<>>
    ELSE <<[content_type |-> "application/octet-stream",
            disposition |-> "attachment; filename= "
                \o PySplit(file_path, "/")[Len(PySplit(file_path, "/"))],
            payload |-> file_path]>>

\* The paths _add_attachments logs and leaves out: open() raised
\* FileNotFoundError or another exception (lines 196-199).
SkippedAttachments(attachments, files) ==
    SelectSeq(attachments, LAMBDA file_path : AttachmentPart(file_path, files) = <<>>)

RECURSIVE AddAttachments(_, _)
AddAttachments(attachments, files) ==
    IF attachments = <<>> THEN <<>>
    ELSE AttachmentPart(Head(attachments), files)
            \o AddAttachments(Tail(attachments), files)

\* _create_email_message listing the bcc addresses after the cc addresses.
CreateEmailMessageShowingBcc(request, message_id, files) ==
    [From |-> from_name \o " <" \o from_email \o ">",
     To |-> PyJoin(", ", request.to),
     Subject |-> request.subject,
     MessageID |-> "<" \o message_id \o "@" \o PySplit(from_email, "@")[2] \o ">",
     Cc |-> IF Truthy(request.cc) \/ Truthy(request.bcc)
            THEN Some(PyJoin(", ", ListOf(request.cc) \o ListOf(request.bcc)))
            ELSE None,
     parts |-> <<[content_type |-> IF request.is_html THEN "text/html" ELSE "text/plain",
                  disposition |-> "",
                  payload |-> request.body]>>
               \o (IF Truthy(request.attachments)
                   THEN AddAttachments(request.attachments[1], files)
                   ELSE <<>>)]

\* _create_email_message: headers and parts of the MIME message.
CreateEmailMessage(request, message_id, files) ==
    [From |-> from_name \o " <" \o from_email \o ">",
     To |-> PyJoin(", ", request.to),
     Subject |-> request.subject,
     MessageID |-> "<" \o message_id \o "@" \o PySplit(from_email, "@")[2] \o ">",
     Cc |-> IF Truthy(request.cc) THEN Some(PyJoin(", ", request.cc[1])) ELSE None,
     parts |-> <<[content_type |-> IF request.is_html THEN "text/html" ELSE "text/plain",
                  disposition |-> "",
                  payload |-> request.body]>>
               \o (IF Truthy(request.attachments)
                   THEN AddAttachments(request.attachments[1], files)
                   ELSE <<>>)]

\* all_recipients of send_email: to, then cc, then bcc.
AllRecipients(request) ==
    request.to \o ListOf(request.cc) \o ListOf(request.bcc)

\* The addresses smtp.send_message(message) sends to: no recipient list is
\* passed, so they are read back from the address headers of the message.
EnvelopeRecipients(message) ==
    PySplit(message.To, ", ")
        \o (IF message.Cc # None THEN PySplit(message.Cc[1], ", ") ELSE <<>>)

\* NextSendStep logging in as soon as a username is configured.
NextSendStepLoginByUsername(step, cfg) ==
    LET login == IF cfg.username # "" THEN "login" ELSE "send_message"
    IN  CASE step = "connect" -> IF cfg.use_tls THEN "starttls" ELSE login
          [] step = "starttls" -> login
          [] step = "login" -> "send_message"
          [] step = "send_message" -> "quit"
          [] step = "quit" -> "return"

\* The relay call that follows `step` in _send_via_smtp, "return" after quit.
NextSendStep(step, cfg) ==
    LET login == IF cfg.username # "" /\ cfg.password # "" THEN "login" ELSE "send_message"
    IN  CASE step = "connect" -> IF cfg.use_tls THEN "starttls" ELSE login
          [] step = "starttls" -> login
          [] step = "login" -> "send_message"
          [] step = "send_message" -> "quit"
          [] step = "quit" -> "return"

\* The relay call that follows `step` in check_smtp_connection.
NextProbeStep(step, cfg) ==
    LET login == IF cfg.username # "" /\ cfg.password # "" THEN "login" ELSE "quit"
    IN  CASE step = "connect" -> IF cfg.use_tls THEN "starttls" ELSE login
          [] step = "starttls" -> login
          [] step = "login" -> "quit"
          [] step = "quit" -> "return"

\* list[start:] of Python.
PySliceFrom(list, start) ==
    LET n == Len(list)
        from == IF start < 0 THEN (IF n + start < 0 THEN 0 ELSE n + start)
                ELSE (IF start > n THEN n ELSE start)
    IN  SubSeq(list, from + 1, n)

\* get_email_history slicing from the front: history[:limit].
GetEmailHistoryOldest(history, limit) ==
    IF history # <<>>
    THEN SubSeq(history, 1, IF limit < Len(history) THEN limit ELSE Len(history))
    ELSE <<>>

\* MailService.get_email_history
get_email_history(history, limit) ==
    IF history # <<>> THEN PySliceFrom(history, 0 - limit) ELSE <<>>

\* get_email_by_id testing the entry's id for truth instead of comparing it.
GetEmailByIdAnyEntry(history, message_id) ==
    IF history # <<>> THEN Some(history[1]) ELSE None

\* MailService.get_email_by_id: the first entry with that id, else None.
get_email_by_id(history, message_id) ==
    IF \E i \in 1..Len(history) : history[i].message_id = message_id
    THEN Some(history[SetMin({i \in 1..Len(history) :
                                history[i].message_id = message_id})])
    ELSE None

(***************************************************************************)
(* State                                                                   *)
(***************************************************************************)

VARIABLES
    email_history,  \* MailService.email_history
    tasks,          \* one record per POST /send handler task
    config,         \* use_tls, username, password of the MailService
    uuid_count,     \* identifiers drawn from uuid4 so far
    now,            \* the clock read by datetime.utcnow()
    call,           \* a direct call of a function of validation.py, if any
    outcome         \* what that call returned or raised, once it ran

vars == <<email_history, tasks, config, uuid_count, now, call, outcome>>

NoCall == [fn |-> "none", kinds |-> {}, arg |-> None]

\* Number of POST /send requests of a behaviour.
MaxTasks == 2

Tasks == 1..MaxTasks

\* GET /history accepts limits 1..MAX_LIMIT.
MAX_LIMIT == 1000

RelaySteps == {"connect", "starttls", "login", "send_message", "quit"}

\* Texts of the exceptions the relay library raises; an exception raised
\* without arguments has the empty text.
ExceptionTexts == {"", "Connection refused"}

ReportPath == "/data/report.pdf"

MissingPath == "/data/missing.pdf"

LargePath == "/data/large.pdf"

ExePath == "/data/setup.exe"

LargeExePath == "/data/dump.exe"

\* A second file that passes validation.
NotesPath == "/data/notes.txt"

\* A file of a disallowed type whose name holds the word email.
EmailExePath == "/data/email.exe"

Paths ==
    {ReportPath, MissingPath, LargePath, ExePath, LargeExePath, NotesPath, EmailExePath}

InitialFiles ==
    [p \in Paths |->
        [exists |-> p # MissingPath,
         size |-> IF p \in {LargePath, LargeExePath} THEN MAX_ATTACHMENT_SIZE + 1 ELSE MAX_ATTACHMENT_SIZE,
         readable |-> TRUE]]

\* What a handler may find on disk when it looks: other processes delete
\* the report file or take its read permission away, and put it back.
DiskStates ==
    {InitialFiles,
     [InitialFiles EXCEPT ![ReportPath].exists = FALSE],
     [InitialFiles EXCEPT ![ReportPath].readable = FALSE]}

Configs ==
    {[use_tls |-> FALSE, username |-> "", password |-> ""],
     [use_tls |-> TRUE, username |-> "", password |-> ""],
     [use_tls |-> FALSE, username |-> "mailer", password |-> ""],
     [use_tls |-> FALSE, username |-> "mailer", password |-> "secret"],
     [use_tls |-> TRUE, username |-> "mailer", password |-> "secret"]}

Plain == RawRequest(Some(<<"a@example.com">>), None, None, Some("S"), Some("B"), FALSE, None)

\* The request bodies clients send.
RawRequests ==
    {Plain,
     RawRequest(Some(<<"a@example.com", "b@example.com">>), Some(<<"c@example.com">>),
                Some(<<"d@example.com">>), Some(" Report "), Some(" <p>Hi</p> "), TRUE,
                Some(<<ReportPath, NotesPath>>)),
     [Plain EXCEPT !.to = Some(<<>>)],
     [Plain EXCEPT !.to = Some(<<"not-an-address">>)],
     [Plain EXCEPT !.subject = Some("  ")],
     [Plain EXCEPT !.bcc = Some(<<>>), !.attachments = Some(<<MissingPath>>)],
     [Plain EXCEPT !.attachments = Some(<<LargePath>>)],
     [Plain EXCEPT !.attachments = Some(<<ExePath>>)],
     [Plain EXCEPT !.attachments = Some(<<EmailExePath>>)]}

IdleTask ==
    [pc |-> "idle", raw |-> None, request |-> None, message_id |-> "", entry |-> 0,
     message |-> None, recipients |-> <<>>, steps |-> <<>>, conn |-> "none",
     skipped |-> <<>>, envelope |-> None, raised |-> None, response |-> None, http |-> 0, body |-> None]

Init ==
    /\ email_history = <<>>
    /\ tasks = [t \in Tasks |-> IdleTask]
    /\ config \in Configs
    /\ uuid_count = 0
    /\ now = 0
    /\ call = NoCall
    /\ outcome = None

(***************************************************************************)
(* POST /send                                                              *)
(***************************************************************************)

\* SendRejection answering 400 Bad Request to a body that is no EmailRequest.
SendRejectionBadRequest(raw, files) ==
    IF ModelErrors(raw) # <<>> THEN 400
    ELSE LET raised == raise_if_invalid(
                           validate_email_request(DictOf(EmailRequest(raw)), files))
         IN  IF raised # <<>> THEN raised[1] ELSE 0

\* The status of the error that ends POST /send before the mail service is
\* called, 0 when the request goes on: the framework answers 422 when the
\* body is no EmailRequest, else the handler validates email_request.dict()
\* and raise_if_invalid picks the status.
SendRejection(raw, files) ==
    IF ModelErrors(raw) # <<>> THEN 422
    ELSE LET raised == raise_if_invalid(
                           validate_email_request(DictOf(EmailRequest(raw)), files))
         IN  IF raised # <<>> THEN raised[1] ELSE 0

\* The handler returning the EmailResponse whatever its status.
SendStatusAlwaysOk(response) == 200

\* The handler's answer to the EmailResponse of the mail service.
SendStatus(response) == IF response.status = "failed" THEN 500 ELSE 200

\* PostSend recording the attempt in the history before it validates.
PostSendRecordsFirst(t, raw, files) ==
    /\ tasks[t].pc = "idle"
    /\ IF t = 1 THEN TRUE ELSE tasks[t - 1].pc # "idle"
    /\ tasks' = [tasks EXCEPT ![t] =
            IF SendRejection(raw, files) # 0
            THEN [@ EXCEPT !.pc = "rejected", !.raw = Some(raw),
                           !.http = SendRejection(raw, files)]
            ELSE [@ EXCEPT !.pc = "validated", !.raw = Some(raw),
                           !.request = Some(EmailRequest(raw))]]
    /\ email_history' =
            IF SendRejection(raw, files) # 0
            THEN Append(email_history,
                        [message_id |-> "", status |-> "failed", to |-> <<>>,
                         cc |-> None, bcc |-> None, subject |-> "", body |-> "",
                         is_html |-> FALSE, sent_at |-> None,
                         error_message |-> None, created_at |-> now])
            ELSE email_history
    /\ UNCHANGED <<config, uuid_count, now, call, outcome>>

\* Request received, parsed and validated (api.py up to the send_email call).
PostSend(t, raw, files) ==
    /\ tasks[t].pc = "idle"
    /\ IF t = 1 THEN TRUE ELSE tasks[t - 1].pc # "idle"
    /\ tasks' = [tasks EXCEPT ![t] =
            IF SendRejection(raw, files) # 0
            THEN [@ EXCEPT !.pc = "rejected", !.raw = Some(raw),
                           !.http = SendRejection(raw, files)]
            ELSE [@ EXCEPT !.pc = "validated", !.raw = Some(raw),
                           !.request = Some(EmailRequest(raw))]]
    /\ UNCHANGED <<email_history, config, uuid_count, now, call, outcome>>

\* MarkSent reading the clock a second time for the entry.
MarkSentLate(entry, sent_at) ==
    [entry EXCEPT !.status = "sent", !.sent_at = Some(sent_at + 1)]

\* The entry after _send_via_smtp returned (lines 106-108).
MarkSent(entry, sent_at) == [entry EXCEPT !.status = "sent", !.sent_at = Some(sent_at)]

\* MarkFailed leaving the reason of the failure out.
MarkFailedNoReason(entry, text) == [entry EXCEPT !.status = "failed"]

\* MarkFailed dropping the body of a message that was not sent.
MarkFailedDropsBody(entry, text) ==
    [entry EXCEPT !.status = "failed", !.error_message = Some(text), !.body = ""]

\* The entry after the except clause of send_email (lines 129-131).
MarkFailed(entry, text) == [entry EXCEPT !.status = "failed", !.error_message = Some(text)]

\* The task after send_email returned `response` to the handler.
Responded(task, response) ==
    [task EXCEPT !.pc = "responded",
                 !.response = Some(response),
                 !.http = SendStatus(response),
                 !.body = IF SendStatus(response) = 200 THEN Some(response) ELSE None]

\* send_email giving up, before it calls the relay, when _add_attachments
\* could not read one of the files.
SendEmailBeginFailsOnSkipped(t, files) ==
    /\ tasks[t].pc = "validated"
    /\ LET request == tasks[t].request[1]
           message_id == Uuid4(uuid_count + 1)
           skipped == SkippedAttachments(ListOf(request.attachments), files)
           text == "Attachment not found"
           started == [tasks[t] EXCEPT
                           !.message_id = message_id,
                           !.entry = Len(email_history) + 1,
                           !.message = Some(CreateEmailMessage(request, message_id, files)),
                           !.skipped = skipped,
                           !.recipients = AllRecipients(request)]
       IN  /\ uuid_count' = uuid_count + 1
           /\ now' = now + 1
           /\ IF skipped = <<>>
              THEN /\ email_history' =
                          Append(email_history, EmailHistory(message_id, request, now))
                   /\ tasks' = [tasks EXCEPT ![t] =
                          [started EXCEPT !.pc = "connect", !.steps = <<"connect">>]]
              ELSE /\ email_history' =
                          Append(email_history,
                                 MarkFailed(EmailHistory(message_id, request, now), text))
                   /\ tasks' = [tasks EXCEPT ![t] =
                          Responded(started,
                                    EmailResponse(message_id, "failed", request,
                                                  None, Some(text)))]
    /\ UNCHANGED <<config, call, outcome>>

\* send_email from its start to the first await of the relay: the identifier
\* is drawn, the pending entry appended, the message built from the files
\* found, smtp.connect() started.
SendEmailBegin(t, files) ==
    /\ tasks[t].pc = "validated"
    /\ LET request == tasks[t].request[1]
           message_id == Uuid4(uuid_count + 1)
       IN  /\ uuid_count' = uuid_count + 1
           /\ email_history' = Append(email_history, EmailHistory(message_id, request, now))
           /\ now' = now + 1
           /\ tasks' = [tasks EXCEPT ![t] =
                  [@ EXCEPT !.pc = "connect",
                            !.message_id = message_id,
                            !.entry = Len(email_history) + 1,
                            !.message = Some(CreateEmailMessage(request, message_id, files)),
                            !.skipped = SkippedAttachments(ListOf(request.attachments),
                                                           files),
                            !.recipients = AllRecipients(request),
                            !.steps = <<"connect">>]]
    /\ UNCHANGED <<config, call, outcome>>

\* The awaited relay call of task t succeeds: the next call is started, or,
\* after quit, the send is recorded and answered (lines 106-125).
RelayAccepts(t) ==
    /\ tasks[t].pc \in RelaySteps
    /\ LET step == tasks[t].pc
           next == NextSendStep(step, config)
           request == tasks[t].request[1]
       IN  IF next = "return"
           THEN /\ email_history' = [email_history EXCEPT ![tasks[t].entry] = MarkSent(@, now)]
                /\ now' = now + 1
                /\ tasks' = [tasks EXCEPT ![t] =
                       Responded([@ EXCEPT !.conn = "closed"],
                                 EmailResponse(tasks[t].message_id, "sent", request,
                                               Some(now), None))]
           ELSE /\ tasks' = [tasks EXCEPT ![t] =
                       [@ EXCEPT !.pc = next,
                                 !.steps = Append(@, next),
                                 !.conn = IF step = "connect" THEN "open" ELSE @,
                                 !.envelope = IF step = "send_message"
                                              THEN Some(EnvelopeRecipients(tasks[t].message[1]))
                                              ELSE @]]
                /\ UNCHANGED <<email_history, now>>
    /\ UNCHANGED <<config, uuid_count, call, outcome>>

\* RelayRaises recording the failure on the newest entry of the history.
RelayRaisesMarksNewest(t, text) ==
    /\ tasks[t].pc \in RelaySteps
    /\ email_history' = [email_history EXCEPT ![Len(email_history)] = MarkFailed(@, text)]
    /\ tasks' = [tasks EXCEPT ![t] =
           Responded([@ EXCEPT !.raised = Some([step |-> tasks[t].pc, text |-> text])],
                     EmailResponse(tasks[t].message_id, "failed", tasks[t].request[1],
                                   None, Some(text)))]
    /\ UNCHANGED <<config, uuid_count, now, call, outcome>>

\* The awaited relay call of task t raises Exception(text): _send_via_smtp
\* re-raises, send_email records the failure (lines 127-151), the handler
\* answers.
RelayRaises(t, text) ==
    /\ tasks[t].pc \in RelaySteps
    /\ email_history' = [email_history EXCEPT ![tasks[t].entry] = MarkFailed(@, text)]
    /\ tasks' = [tasks EXCEPT ![t] =
           Responded([@ EXCEPT !.raised = Some([step |-> tasks[t].pc, text |-> text])],
                     EmailResponse(tasks[t].message_id, "failed", tasks[t].request[1],
                                   None, Some(text)))]
    /\ UNCHANGED <<config, uuid_count, now, call, outcome>>

\* The handler task is cancelled while it awaits the relay: CancelledError is
\* no Exception, so neither send_email nor the handler catches it.
CancelTask(t) ==
    /\ tasks[t].pc \in RelaySteps
    /\ tasks' = [tasks EXCEPT ![t] = [@ EXCEPT !.pc = "cancelled"]]
    /\ UNCHANGED <<email_history, config, uuid_count, now, call, outcome>>

(***************************************************************************)
(* GET /history, GET /history/{message_id}, GET /health                    *)
(***************************************************************************)

\* The limits clients ask for.
Limits == (-1..(MaxTasks + 1)) \cup {MAX_LIMIT, MAX_LIMIT + 1}

\* The identifiers clients ask for: every one a send can draw, and one more.
QueryIds == {Uuid4(n) : n \in 1..MaxTasks} \cup {"no-such-id"}

\* The handler of GET /history: status and body.
HistoryAnswer(history, limit) ==
    IF limit < 1 \/ limit > MAX_LIMIT
    THEN [http |-> 422, entries |-> <<>>]
    ELSE [http |-> 200, entries |-> get_email_history(history, limit)]

\* The handler of GET /history/{message_id}: status and body.
ByIdAnswer(history, message_id) ==
    LET email == get_email_by_id(history, message_id)
    IN  IF email = None
        THEN [http |-> 404, entries |-> <<>>]
        ELSE [http |-> 200, entries |-> email]

\* GET /history answers HistoryAnswer(email_history, limit); it assigns
\* nothing.
GetHistory(limit) ==
    /\ HistoryAnswer(email_history, limit).http \in {200, 422}
    /\ UNCHANGED vars

\* GET /history/{message_id} answers ByIdAnswer(email_history, message_id);
\* it assigns nothing.
GetById(message_id) ==
    /\ ByIdAnswer(email_history, message_id).http \in {200, 404}
    /\ UNCHANGED vars

\* The relay calls check_smtp_connection makes from `step` on when the call
\* `fail` raises.
RECURSIVE ProbeSteps(_, _, _)
ProbeSteps(step, cfg, fail) ==
    IF step = "return" THEN <<>>
    ELSE IF step = fail THEN <<step>>
    ELSE <<step>> \o ProbeSteps(NextProbeStep(step, cfg), cfg, fail)

\* check_smtp_connection treating a failed quit as a success.
CheckSmtpConnectionIgnoringQuit(cfg, fail) ==
    LET steps == ProbeSteps("connect", cfg, fail)
        raised == \E i \in 1..Len(steps) : steps[i] = fail /\ fail # "quit"
    IN  [steps |-> steps,
         result |-> ~raised,
         conn |-> IF ~raised THEN "closed" ELSE IF fail = "connect" THEN "none" ELSE "open"]

\* MailService.check_smtp_connection when the call `fail` raises ("none":
\* no call raises): the calls made, the value returned and what becomes of
\* the connection.
check_smtp_connection(cfg, fail) ==
    LET steps == ProbeSteps("connect", cfg, fail)
        raised == \E i \in 1..Len(steps) : steps[i] = fail
    IN  [steps |-> steps,
         result |-> ~raised,
         conn |-> IF ~raised THEN "closed" ELSE IF fail = "connect" THEN "none" ELSE "open"]

\* The handler of GET /health when the probe's call `fail` raises.
HealthAnswer(cfg, fail) ==
    LET smtp_connection == check_smtp_connection(cfg, fail).result
    IN  [http |-> 200,
         status |-> IF smtp_connection THEN "healthy" ELSE "degraded",
         kube_mail_connection |-> smtp_connection]

\* The calls of the probe that can raise under the configuration.
ProbeFailures(cfg) ==
    {"none"} \cup {ProbeSteps("connect", cfg, "none")[i] :
                     i \in 1..Len(ProbeSteps("connect", cfg, "none"))}

\* GET /health answers HealthAnswer(config, fail); it assigns nothing.
HealthCheck(fail) ==
    /\ fail \in ProbeFailures(config)
    /\ HealthAnswer(config, fail).http = 200
    /\ UNCHANGED vars

Next ==
    \/ \E t \in Tasks, raw \in RawRequests, files \in DiskStates : PostSend(t, raw, files)
    \/ \E t \in Tasks, files \in DiskStates : SendEmailBegin(t, files)
    \/ \E t \in Tasks : RelayAccepts(t)
    \/ \E t \in Tasks, text \in ExceptionTexts : RelayRaises(t, text)
    \/ \E t \in Tasks : CancelTask(t)
    \/ \E limit \in Limits : GetHistory(limit)
    \/ \E id \in QueryIds : GetById(id)
    \/ \E fail \in {"none"} \cup RelaySteps : HealthCheck(fail)

Spec == Init /\ [][Next]_vars

\* What the handler task of request t does when the event loop runs it.
TaskStep(t) ==
    \/ \E files \in DiskStates : SendEmailBegin(t, files)
    \/ RelayAccepts(t)
    \/ \E text \in ExceptionTexts : RelayRaises(t, text)

\* The service with every handler task scheduled again and again: a task
\* that can go on does go on, a relay call it awaits ends in an answer or an
\* exception (the relay library gives up on a silent relay and raises).
\* Nothing makes a client keep its request open, so CancelTask is not fair.
FairSpec == Spec /\ \A t \in Tasks : WF_vars(TaskStep(t))

(***************************************************************************)
(* Direct calls of validation.py                                           *)
(***************************************************************************)

\* Fragments of error texts, each holding one keyword of raise_if_invalid
\* and no other; Keyword[i] is the keyword inside Fragment[i].
Fragment ==
    <<"Invalid Email", "File Not Found", "Unauthorized", "FORBIDDEN", "Too Large",
      "Oversized", "Unsupported format", "bad Media Type">>

RECURSIVE FragmentsOf(_, _)
FragmentsOf(kinds, i) ==
    IF i > Len(Fragment) THEN <<>>
    ELSE (IF i \in kinds THEN <<Fragment[i]>> ELSE <<>>) \o FragmentsOf(kinds, i + 1)

\* ValidationResult(is_valid, {"error": text}) with the fragments `kinds`
\* in the text.
ResultWith(is_valid, kinds) ==
    ValidationResult(is_valid, DictStrErrors("error", PyJoin("; ", FragmentsOf(kinds, 1))))

RaiseCalls ==
    {[fn |-> "raise_if_invalid", kinds |-> kinds, arg |-> ResultWith(is_valid, kinds)] :
        is_valid \in BOOLEAN, kinds \in SUBSET (1..Len(Fragment))}

\* The dicts handed to validate_email_request: every mix of a recipient
\* fault, an address fault, a text fault and an attachment fault.
ValidateRequestData ==
    {RawRequest(to, cc, None, subject, Some("B"), FALSE, attachments) :
        to \in {None, Some(<<>>), Some(<<"a@example.com">>), Some(<<"not-an-address">>)},
        cc \in {None, Some(<<"c@">>)},
        subject \in {None, Some("S"), Some("  ")},
        attachments \in {None, Some(<<MissingPath>>), Some(<<ReportPath, ExePath>>)}}

ValidateRequestCalls ==
    {[fn |-> "validate_email_request", kinds |-> {},
      arg |-> [data |-> data, files |-> files]] :
        data \in ValidateRequestData, files \in DiskStates}

\* The address lists handed to validate_email_addresses.
MaxAddresses == 3

AddressSamples == {"a@example.com", "not-an-address", "c@"}

AddressLists ==
    UNION {[1..n -> AddressSamples] : n \in 0..MaxAddresses}

ValidateAddressesCalls ==
    {[fn |-> "validate_email_addresses", kinds |-> {}, arg |-> emails] :
        emails \in AddressLists}

\* The attachment lists handed to validate_attachments.
MaxAttachments == 2

AttachmentLists ==
    UNION {[1..n -> Paths] : n \in 0..MaxAttachments}

\* The sizes the report file is given around the limit.
ReportSizes ==
    {0, MAX_ATTACHMENT_SIZE - 1, MAX_ATTACHMENT_SIZE, MAX_ATTACHMENT_SIZE + 1,
     2 * MAX_ATTACHMENT_SIZE}

AttachmentDisks ==
    {[InitialFiles EXCEPT ![ReportPath].size = size] : size \in ReportSizes}
        \cup {[InitialFiles EXCEPT ![ReportPath].exists = FALSE]}

ValidateAttachmentsCalls ==
    {[fn |-> "validate_attachments", kinds |-> {},
      arg |-> [attachments |-> attachments, files |-> files]] :
        attachments \in AttachmentLists, files \in AttachmentDisks}

\* The requests handed to _create_email_message.
BuildRequests ==
    {[to |-> to, cc |-> cc, bcc |-> bcc, subject |-> subject, body |-> "B",
      is_html |-> is_html, attachments |-> attachments] :
        to \in {<<"a@example.com">>, <<"a@example.com", "b@example.com">>},
        cc \in {None, Some(<<>>), Some(<<"c@example.com">>),
                Some(<<"c@example.com", "e@example.com">>)},
        bcc \in {None, Some(<<>>), Some(<<"d@example.com">>)},
        subject \in {"S", "Quarterly report"},
        is_html \in BOOLEAN,
        attachments \in {None, Some(<<ReportPath>>)}}

CreateMessageCalls ==
    {[fn |-> "_create_email_message", kinds |-> {},
      arg |-> [request |-> request, message_id |-> Uuid4(n), files |-> InitialFiles]] :
        request \in BuildRequests, n \in 1..MaxTasks}

\* Histories a mail service holds after zero to three sends of the plain
\* request: pending, sent and failed entries.
SampleEntry(n) == EmailHistory(Uuid4(n), EmailRequest(Plain), n)

SampleHistories ==
    {<<>>,
     <<SampleEntry(1)>>,
     <<MarkSent(SampleEntry(1), 2), MarkFailed(SampleEntry(2), "Connection refused")>>,
     <<MarkSent(SampleEntry(1), 3), SampleEntry(2), MarkFailed(SampleEntry(3), "")>>}

\* The methods of the mail service that only read.
ReadMethods == {"get_email_by_id", "get_email_history", "check_smtp_connection"}

\* Direct calls of the reading methods; each is made twice in a row.
ReadCalls ==
    {[fn |-> "get_email_by_id", kinds |-> {}, arg |-> id] :
        id \in {Uuid4(n) : n \in 1..3} \cup {"no-such-id"}}
      \cup {[fn |-> "get_email_history", kinds |-> {}, arg |-> limit] : limit \in Limits}
      \cup {[fn |-> "check_smtp_connection", kinds |-> {}, arg |-> fail] :
                fail \in {"none"} \cup RelaySteps}

CallInit ==
    /\ call \in RaiseCalls \cup ValidateRequestCalls \cup ValidateAddressesCalls
                \cup ValidateAttachmentsCalls \cup CreateMessageCalls \cup ReadCalls
    /\ email_history \in IF call.fn \in ReadMethods THEN SampleHistories ELSE {<<>>}
    /\ tasks = [t \in Tasks |-> IdleTask]
    /\ config \in IF call.fn = "check_smtp_connection" THEN Configs
                  ELSE {[use_tls |-> TRUE, username |-> "", password |-> ""]}
    /\ uuid_count = 0
    /\ now = 0
    /\ outcome = None

\* result.raise_if_invalid() runs.
CallRaiseIfInvalid ==
    /\ call.fn = "raise_if_invalid"
    /\ outcome = None
    /\ outcome' = Some(raise_if_invalid(call.arg))
    /\ UNCHANGED <<email_history, tasks, config, uuid_count, now, call>>

\* validate_email_request(data) runs.
CallValidateEmailRequest ==
    /\ call.fn = "validate_email_request"
    /\ outcome = None
    /\ outcome' = Some([result |-> validate_email_request(call.arg.data, call.arg.files),
                        examined |-> ExaminedPaths(call.arg.data, call.arg.files)])
    /\ UNCHANGED <<email_history, tasks, config, uuid_count, now, call>>

\* validate_email_addresses(emails) runs.
CallValidateEmailAddresses ==
    /\ call.fn = "validate_email_addresses"
    /\ outcome = None
    /\ outcome' = Some(validate_email_addresses(call.arg))
    /\ UNCHANGED <<email_history, tasks, config, uuid_count, now, call>>

\* validate_attachments(attachments) runs.
CallValidateAttachments ==
    /\ call.fn = "validate_attachments"
    /\ outcome = None
    /\ outcome' = Some(validate_attachments(call.arg.attachments, call.arg.files))
    /\ UNCHANGED <<email_history, tasks, config, uuid_count, now, call>>

\* self._create_email_message(email_request, message_id) runs.
CallCreateEmailMessage ==
    /\ call.fn = "_create_email_message"
    /\ outcome = None
    /\ outcome' = Some(CreateEmailMessage(call.arg.request, call.arg.message_id,
                                          call.arg.files))
    /\ UNCHANGED <<email_history, tasks, config, uuid_count, now, call>>

\* get_email_by_id removing the entry it returns from the history.
CallGetEmailByIdConsuming ==
    /\ call.fn = "get_email_by_id"
    /\ Len(outcome) < 2
    /\ outcome' = Append(outcome, get_email_by_id(email_history, call.arg))
    /\ email_history' =
            SelectSeq(email_history, LAMBDA email : email.message_id # call.arg)
    /\ UNCHANGED <<tasks, config, uuid_count, now, call>>

\* mail_service.get_email_by_id(message_id) runs, a first and a second time.
CallGetEmailById ==
    /\ call.fn = "get_email_by_id"
    /\ Len(outcome) < 2
    /\ outcome' = Append(outcome, get_email_by_id(email_history, call.arg))
    /\ UNCHANGED <<email_history, tasks, config, uuid_count, now, call>>

\* mail_service.get_email_history(limit) runs, a first and a second time.
CallGetEmailHistory ==
    /\ call.fn = "get_email_history"
    /\ Len(outcome) < 2
    /\ outcome' = Append(outcome, get_email_history(email_history, call.arg))
    /\ UNCHANGED <<email_history, tasks, config, uuid_count, now, call>>

\* mail_service.check_smtp_connection() runs, a first and a second time,
\* with the relay call call.arg raising.
CallCheckSmtpConnection ==
    /\ call.fn = "check_smtp_connection"
    /\ Len(outcome) < 2
    /\ outcome' = Append(outcome, check_smtp_connection(config, call.arg).result)
    /\ UNCHANGED <<email_history, tasks, config, uuid_count, now, call>>

CallNext ==
    \/ CallRaiseIfInvalid
    \/ CallValidateEmailRequest
    \/ CallValidateEmailAddresses
    \/ CallValidateAttachments
    \/ CallCreateEmailMessage
    \/ CallGetEmailById
    \/ CallGetEmailHistory
    \/ CallCheckSmtpConnection

CallSpec == CallInit /\ [][CallNext]_vars

(***************************************************************************)
(* Properties                                                              *)
(***************************************************************************)

\* The tasks whose send_email call has appended its entry.
Began == {t \in Tasks : tasks[t].pc \in RelaySteps \cup {"responded", "cancelled"}}

\* C1: when no relay call of a send raised, send_email returns status sent
\* with sent_at set, and from then on get_email_by_id of the returned id
\* gives an entry with the same subject, status sent and the same sent_at.
C1_SentIsRecorded ==
    \A t \in Tasks :
        (tasks[t].pc = "responded" /\ tasks[t].raised = None) =>
            LET response == tasks[t].response[1]
                found == get_email_by_id(email_history, response.message_id)
            IN  /\ response.status = "sent"
                /\ response.sent_at # None
                /\ found # None
                /\ found[1].subject = response.subject
                /\ found[1].status = "sent"
                /\ found[1].sent_at = response.sent_at

\* A send that the relay accepted, looked up after a later send was appended.
C1_Witness ==
    /\ tasks[1].pc = "responded"
    /\ tasks[1].raised = None
    /\ Len(email_history) = 2
    /\ get_email_by_id(email_history, tasks[1].response[1].message_id)
            = Some(email_history[1])

\* C2: every exception of a relay call ends in a response and an entry:
\* send_email returns status failed, sent_at null and a non-empty
\* error_message equal to the exception text, and the entry found by the
\* same message_id has status failed and the same error_message.
C2_FailureRecordedNonEmpty ==
    \A t \in Tasks :
        tasks[t].raised # None =>
            /\ tasks[t].pc = "responded"
            /\ tasks[t].response # None
            /\ LET response == tasks[t].response[1]
                   found == get_email_by_id(email_history, response.message_id)
               IN  /\ response.status = "failed"
                   /\ response.sent_at = None
                   /\ response.error_message = Some(tasks[t].raised[1].text)
                   /\ response.error_message[1] # ""
                   /\ found # None
                   /\ found[1].message_id = tasks[t].message_id
                   /\ found[1].status = "failed"
                   /\ found[1].error_message = response.error_message

\* C3: a request rejected by validation ends there: the rejecting step
\* leaves the history as it was, the task has no entry, no message, no
\* relay call and no connection, and it never moves again.
C3_RejectedLeavesNoTrace ==
    [][\A t \in Tasks :
          /\ tasks'[t].pc = "rejected" =>
                /\ tasks[t].pc \in {"idle", "rejected"}
                /\ tasks[t].pc = "idle" => email_history' = email_history
                /\ tasks'[t].entry = 0
                /\ tasks'[t].message = None
                /\ tasks'[t].steps = <<>>
                /\ tasks'[t].conn = "none"
                /\ tasks'[t].response = None
          /\ tasks[t].pc = "rejected" => tasks'[t] = tasks[t]]_vars

\* A request rejected while the history already holds an entry.
C3_Witness ==
    /\ tasks[2].pc = "rejected"
    /\ Len(email_history) = 1
    /\ tasks[1].entry = 1

\* C4: a validated request is answered 500 exactly when the EmailResponse
\* has status failed and 200 with that EmailResponse exactly when it has
\* status sent; a 200 answer is never failed or pending.
C4_StatusFollowsResponse ==
    \A t \in Tasks :
        tasks[t].pc = "responded" =>
            LET response == tasks[t].response[1]
            IN  /\ tasks[t].http = 500 <=> response.status = "failed"
                /\ tasks[t].http = 200 <=> response.status = "sent"
                /\ tasks[t].http = 200 =>
                      /\ tasks[t].body = Some(response)
                      /\ response.status \notin {"failed", "pending"}

\* One request answered 200 and another answered 500.
C4_Witness ==
    /\ tasks[1].pc = "responded" /\ tasks[1].http = 200
    /\ tasks[2].pc = "responded" /\ tasks[2].http = 500

\* The addresses of a request body.
AddressesOf(raw) ==
    (IF raw.to = None THEN <<>> ELSE raw.to[1])
        \o (IF raw.cc = None THEN <<>> ELSE raw.cc[1])
        \o (IF raw.bcc = None THEN <<>> ELSE raw.bcc[1])

\* The body misses a field, has no recipient, or an empty or overlong text.
HasStructuralFault(raw) ==
    \/ raw.to = None \/ raw.subject = None \/ raw.body = None
    \/ raw.to # None /\ raw.to[1] = <<>>
    \/ raw.subject # None /\ (PyStrip(raw.subject[1]) = "" \/ Len(raw.subject[1]) > 200)
    \/ raw.body # None /\ PyStrip(raw.body[1]) = ""

HasAddressFault(raw) ==
    \E i \in 1..Len(AddressesOf(raw)) : AddressFault(AddressesOf(raw)[i]) # ""

\* C5 as stated: every request that fails validation is answered 422.
C5_EveryRejectionIs422 ==
    \A t \in Tasks : tasks[t].pc = "rejected" => tasks[t].http = 422

\* C5 as amended: a structural or address fault is answered 422; a request
\* whose only fault is its attachment is answered 404 when the file is
\* missing, 413 when it is too large and 415 when its type is not allowed,
\* unless the path holds a keyword of an earlier class: 'email' gives 422.
C5_RejectionStatusByFault ==
    \A t \in Tasks :
        tasks[t].pc = "rejected" =>
            LET raw == tasks[t].raw[1]
            IN  IF HasStructuralFault(raw) \/ HasAddressFault(raw)
                THEN tasks[t].http = 422
                ELSE /\ raw.attachments # None
                     /\ raw.attachments[1][1] \in {MissingPath, ReportPath} => tasks[t].http = 404
                     /\ raw.attachments[1][1] = LargePath => tasks[t].http = 413
                     /\ raw.attachments[1][1] = ExePath => tasks[t].http = 415
                     /\ raw.attachments[1][1] = EmailExePath => tasks[t].http = 422

\* A request without recipients and a request with a missing attachment,
\* both rejected.
C5_Witness ==
    /\ tasks[1].pc = "rejected" /\ tasks[1].raw[1].to = Some(<<>>)
    /\ tasks[2].pc = "rejected" /\ tasks[2].raw[1].attachments = Some(<<MissingPath>>)

\* The status the claimed priority gives a text made of the fragments
\* `kinds`; sized: a text speaking of 'size' counts as too large.
ClaimedStatus(kinds, sized) ==
    IF 1 \in kinds THEN 422
    ELSE IF 2 \in kinds THEN 404
    ELSE IF 3 \in kinds \/ 4 \in kinds THEN 401
    ELSE IF 5 \in kinds \/ (sized /\ 6 \in kinds) THEN 413
    ELSE IF 7 \in kinds \/ 8 \in kinds THEN 415
    ELSE 422

\* C6 as stated: raise_if_invalid raises nothing for a valid result and
\* for an invalid one raises exactly one HTTP error, its status taken from
\* the first keyword class in the lower-cased text: 'email' 422,
\* 'not found' 404, 'unauthorized' or 'forbidden' 401, 'too large' 413,
\* 'unsupported' or 'media type' 415, anything else 422.
C6_StatusByKeywordPriority ==
    (call.fn = "raise_if_invalid" /\ outcome # None) =>
        IF call.arg.is_valid
        THEN outcome[1] = <<>>
        ELSE outcome[1] = <<ClaimedStatus(call.kinds, FALSE)>>

\* C6 as amended: the 413 class is 'too large' or 'size'.
C6_StatusByKeywordPriorityWithSize ==
    (call.fn = "raise_if_invalid" /\ outcome # None) =>
        IF call.arg.is_valid
        THEN outcome[1] = <<>>
        ELSE outcome[1] = <<ClaimedStatus(call.kinds, TRUE)>>

\* An invalid result whose text speaks of a size and of a media type.
C6_Witness ==
    /\ call.fn = "raise_if_invalid"
    /\ outcome # None
    /\ ~call.arg.is_valid
    /\ call.kinds = {6, 8}
    /\ outcome[1] = <<413>>

\* The last k entries of a list, k >= 0.
LastEntries(list, k) ==
    [i \in 1..(IF k < Len(list) THEN k ELSE Len(list)) |->
        list[Len(list) - (IF k < Len(list) THEN k ELSE Len(list)) + i]]

\* C7: GET /history answers 422 with nothing read for every limit below 1
\* or above 1000, and for every other limit the min(limit, n) most recently
\* appended entries, oldest first.
C7_HistoryIsMostRecent ==
    \A limit \in Limits :
        IF limit < 1 \/ limit > 1000
        THEN HistoryAnswer(email_history, limit) = [http |-> 422, entries |-> <<>>]
        ELSE HistoryAnswer(email_history, limit)
                = [http |-> 200, entries |-> LastEntries(email_history, limit)]

\* Two entries recorded and GET /history?limit=1 answers the second alone.
C7_Witness ==
    /\ Len(email_history) = 2
    /\ email_history[1] # email_history[2]
    /\ HistoryAnswer(email_history, 1).entries = <<email_history[2]>>

\* C8: GET /history/{id} answers the entry whose message_id is id when a
\* send_email call generated id, and 404 for every other id.
C8_LookupFindsGeneratedIds ==
    \A id \in QueryIds :
        IF \E t \in Began : tasks[t].message_id = id
        THEN \E t \in Began :
                /\ tasks[t].message_id = id
                /\ ByIdAnswer(email_history, id).http = 200
                /\ ByIdAnswer(email_history, id).entries = <<email_history[tasks[t].entry]>>
                /\ email_history[tasks[t].entry].message_id = id
        ELSE ByIdAnswer(email_history, id) = [http |-> 404, entries |-> <<>>]

\* Two sends recorded: the second id finds the second entry, an id no send
\* drew finds nothing.
C8_Witness ==
    /\ Len(email_history) = 2
    /\ ByIdAnswer(email_history, tasks[2].message_id).entries = <<email_history[2]>>
    /\ ByIdAnswer(email_history, "no-such-id").http = 404

\* The calls a probe makes when all of them succeed.
ExpectedProbe(cfg) ==
    <<"connect">>
        \o (IF cfg.use_tls THEN <<"starttls">> ELSE <<>>)
        \o (IF cfg.username # "" /\ cfg.password # "" THEN <<"login">> ELSE <<>>)
        \o <<"quit">>

\* C9: GET /health always answers a HealthCheck: healthy with the flag
\* true when connect, STARTTLS if configured, login if configured and quit
\* all succeed, a non-healthy status with the flag false when one of them
\* raises; the probe never calls send_message.
C9_HealthFollowsProbe ==
    \A fail \in {"none"} \cup RelaySteps :
        LET probe == check_smtp_connection(config, fail)
            answer == HealthAnswer(config, fail)
            raises == \E i \in 1..Len(ExpectedProbe(config)) : ExpectedProbe(config)[i] = fail
        IN  /\ answer.http = 200
            /\ \A i \in 1..Len(probe.steps) : probe.steps[i] # "send_message"
            /\ IF raises
               THEN /\ answer.status # "healthy"
                    /\ answer.kube_mail_connection = FALSE
               ELSE /\ answer.status = "healthy"
                    /\ answer.kube_mail_connection = TRUE
                    /\ probe.steps = ExpectedProbe(config)

\* A relay with TLS and credentials: the probe is healthy when all four
\* calls succeed and degraded when only quit raises.
C9_Witness ==
    /\ config.use_tls /\ config.username # "" /\ config.password # ""
    /\ HealthAnswer(config, "none").status = "healthy"
    /\ check_smtp_connection(config, "none").steps = <<"connect", "starttls", "login", "quit">>
    /\ HealthAnswer(config, "quit").status = "degraded"
    /\ tasks[1].pc = "responded"

\* C10: every send_email call appends exactly one entry and returns at
\* most one response, which carries the entry's message_id; no two entries
\* of the history share a message_id.
C10_OneEntryPerSend ==
    /\ Len(email_history) = Cardinality(Began)
    /\ \A t \in Tasks : (t \in Began) <=> (tasks[t].entry # 0)
    /\ \A t \in Began :
          /\ {i \in 1..Len(email_history) : email_history[i].message_id = tasks[t].message_id}
                = {tasks[t].entry}
          /\ tasks[t].pc = "responded" =>
                /\ tasks[t].response # None
                /\ tasks[t].response[1].message_id = email_history[tasks[t].entry].message_id
          /\ tasks[t].pc # "responded" => tasks[t].response = None
    /\ \A i, j \in 1..Len(email_history) :
          i # j => email_history[i].message_id # email_history[j].message_id

\* Two sends returned, each with the id of its own entry.
C10_Witness ==
    /\ Len(email_history) = 2
    /\ tasks[1].pc = "responded" /\ tasks[2].pc = "responded"
    /\ tasks[1].response[1].message_id = email_history[1].message_id
    /\ tasks[2].response[1].message_id = email_history[2].message_id

\* The elements of a list.
Elements(list) == {list[i] : i \in 1..Len(list)}

\* C11: for every send whose send_message call completed, the recipients
\* the relay was given are exactly the addresses of to, cc and bcc of the
\* request; in particular every bcc address is among them.
C11_EnvelopeIsAllRecipients ==
    \A t \in Tasks :
        tasks[t].envelope # None =>
            /\ Elements(tasks[t].envelope[1])
                  = Elements(tasks[t].request[1].to)
                      \cup Elements(ListOf(tasks[t].request[1].cc))
                      \cup Elements(ListOf(tasks[t].request[1].bcc))
            /\ Elements(ListOf(tasks[t].request[1].bcc)) \subseteq Elements(tasks[t].envelope[1])

\* The attachment at `path` fails validation on the disk `files`.
FaultyAttachment(path, files) ==
    \/ ~files[path].exists
    \/ files[path].size > 10 * 1024 * 1024
    \/ path \in {ExePath, LargeExePath, EmailExePath}

StartsWith(s, prefix) ==
    Len(s) >= Len(prefix) /\ SubSeq(s, 1, Len(prefix)) = prefix

\* The places of a list that hold a malformed address.
InvalidPlaces(emails) ==
    {i \in 1..Len(emails) : emails[i] \in {"not-an-address", "c@"}}

\* C13: validate_email_addresses reports exactly one error per invalid
\* address, naming its position (counted from 0) and the address, reports
\* nothing for a valid address, and its result is valid exactly when the
\* list holds no invalid address.
C13_OneErrorPerInvalidAddress ==
    (call.fn = "validate_email_addresses" /\ outcome # None) =>
        LET emails == call.arg
            result == outcome[1]
            msgs == result.errors.msgs
            Names(k, i) == StartsWith(msgs[k], "Invalid email at position "
                                \o ToString(i - 1) \o ": " \o emails[i] \o " - ")
        IN  /\ result.is_valid <=> InvalidPlaces(emails) = {}
            /\ Len(msgs) = Cardinality(InvalidPlaces(emails))
            /\ \A i \in InvalidPlaces(emails) :
                  Cardinality({k \in 1..Len(msgs) : Names(k, i)}) = 1
            /\ \A k \in 1..Len(msgs) : \E i \in InvalidPlaces(emails) : Names(k, i)
            /\ \A k, l \in 1..Len(msgs) :
                  k < l => \E i, j \in InvalidPlaces(emails) :
                              i < j /\ Names(k, i) /\ Names(l, j)

\* A list whose first and last address are malformed was validated: two
\* errors, for positions 0 and 2.
C13_Witness ==
    /\ call.fn = "validate_email_addresses"
    /\ outcome # None
    /\ call.arg = <<"c@", "a@example.com", "c@">>
    /\ Len(outcome[1].errors.msgs) = 2
    /\ StartsWith(outcome[1].errors.msgs[2], "Invalid email at position 2: c@")

EndsWith(s, suffix) ==
    Len(s) >= Len(suffix) /\ SubSeq(s, Len(s) - Len(suffix) + 1, Len(s)) = suffix

\* The errors the file at `path` deserves on the disk `files`.
DeservedErrors(path, files) ==
    IF ~files[path].exists THEN {"not found"}
    ELSE (IF files[path].size > 10 * 1024 * 1024 THEN {"too large"} ELSE {})
            \cup (IF path \in {ExePath, LargeExePath, EmailExePath} THEN {"unsupported"} ELSE {})

\* The message is the error of the given kind for the given path.
IsErrorFor(msg, kind, path) ==
    CASE kind = "not found" -> msg = "Attachment not found: " \o path
      [] kind = "too large" -> StartsWith(msg, "Attachment too large: " \o path \o " (")
      [] kind = "unsupported" ->
            StartsWith(msg, "Unsupported file type: ") /\ EndsWith(msg, " for " \o path)

\* C14: validate_attachments examines every path of the list, also after
\* an earlier path failed: a missing file gets a not-found error and no
\* other, an existing file a too-large error when oversized and an
\* unsupported-type error when its extension is not allowed (both when
\* both apply), and the result is valid exactly when no path has an error.
C14_EveryAttachmentExamined ==
    (call.fn = "validate_attachments" /\ outcome # None) =>
        LET attachments == call.arg.attachments
            files == call.arg.files
            result == outcome[1]
            msgs == result.errors.msgs
        IN  /\ result.is_valid <=>
                  \A i \in 1..Len(attachments) : DeservedErrors(attachments[i], files) = {}
            /\ result.is_valid <=> msgs = <<>>
            /\ \A k \in 1..Len(msgs) :
                  \E path \in Paths, kind \in {"not found", "too large", "unsupported"} :
                      IsErrorFor(msgs[k], kind, path)
            /\ \A path \in Paths, kind \in {"not found", "too large", "unsupported"} :
                  Cardinality({k \in 1..Len(msgs) : IsErrorFor(msgs[k], kind, path)})
                      = Cardinality({i \in 1..Len(attachments) :
                                        /\ attachments[i] = path
                                        /\ kind \in DeservedErrors(path, files)})

\* A missing file followed by an oversized file of a disallowed type: one
\* not-found error, then a too-large and an unsupported-type error.
C14_Witness ==
    /\ call.fn = "validate_attachments"
    /\ outcome # None
    /\ call.arg.attachments = <<MissingPath, LargeExePath>>
    /\ Len(outcome[1].errors.msgs) = 3
    /\ IsErrorFor(outcome[1].errors.msgs[1], "not found", MissingPath)
    /\ IsErrorFor(outcome[1].errors.msgs[2], "too large", LargeExePath)
    /\ IsErrorFor(outcome[1].errors.msgs[3], "unsupported", LargeExePath)

\* C15: an existing attachment with an allowed extension is accepted when
\* its size is at most 10 MiB, the limit included, and gets a too-large
\* error when its size is one byte more, or larger.
C15_SizeLimitIsInclusive ==
    (/\ call.fn = "validate_attachments"
     /\ outcome # None
     /\ call.arg.attachments = <<ReportPath>>
     /\ call.arg.files[ReportPath].exists) =>
        IF call.arg.files[ReportPath].size <= 10485760
        THEN outcome[1] = ValidationResult(TRUE, NoErrors)
        ELSE /\ ~outcome[1].is_valid
             /\ Len(outcome[1].errors.msgs) = 1
             /\ IsErrorFor(outcome[1].errors.msgs[1], "too large", ReportPath)

\* A file of exactly 10 MiB and a file of one byte more were validated
\* together: the only error is for the larger one.
C15_Witness ==
    /\ call.fn = "validate_attachments"
    /\ outcome # None
    /\ call.arg.attachments = <<ReportPath, LargePath>>
    /\ call.arg.files[ReportPath].size = 10485760
    /\ call.arg.files[LargePath].size = 10485761
    /\ Len(outcome[1].errors.msgs) = 1
    /\ IsErrorFor(outcome[1].errors.msgs[1], "too large", LargePath)

\* The text parts of a built message.
BodyParts(message) ==
    {i \in 1..Len(message.parts) :
        message.parts[i].content_type \in {"text/plain", "text/html"}}

\* C16: the message built for an accepted request has exactly one body
\* part, of HTML type when is_html is set and of plain-text type when it is
\* not, and that part holds the body as the client submitted it, leading
\* and trailing whitespace included.
C16_BodyIsPreserved ==
    \A t \in Tasks :
        tasks[t].message # None =>
            LET message == tasks[t].message[1]
                submitted == tasks[t].raw[1]
            IN  /\ Cardinality(BodyParts(message)) = 1
                /\ \A i \in BodyParts(message) :
                      /\ message.parts[i].content_type
                            = IF submitted.is_html THEN "text/html" ELSE "text/plain"
                      /\ message.parts[i].payload = submitted.body[1]

\* The addresses of a list separated by a comma and a space.
CommaSeparated(list) ==
    CASE Len(list) = 1 -> list[1]
      [] Len(list) = 2 -> list[1] \o ", " \o list[2]

\* C17: the built message carries From = the configured name and address,
\* To = the `to` list joined in order, Subject = the request subject,
\* Message-ID = <identifier@sending-domain>, a Cc header exactly when cc is
\* non-empty, and no header that contains a bcc address.
C17_HeadersOfBuiltMessage ==
    (call.fn = "_create_email_message" /\ outcome # None) =>
        LET request == call.arg.request
            message == outcome[1]
            cc == IF request.cc = None THEN <<>> ELSE request.cc[1]
            bcc == IF request.bcc = None THEN <<>> ELSE request.bcc[1]
            headers == {message.From, message.To, message.Subject, message.MessageID}
                           \cup (IF message.Cc = None THEN {} ELSE {message.Cc[1]})
                           \cup {message.parts[i].disposition : i \in 1..Len(message.parts)}
        IN  /\ DOMAIN message = {"From", "To", "Subject", "MessageID", "Cc", "parts"}
            /\ message.From = "Bionic AI Solutions <info@bionicaisolutions.com>"
            /\ message.To = CommaSeparated(request.to)
            /\ message.Subject = request.subject
            /\ message.MessageID = "<" \o call.arg.message_id \o "@bionicaisolutions.com>"
            /\ message.Cc # None <=> cc # <<>>
            /\ cc # <<>> => message.Cc = Some(CommaSeparated(cc))
            /\ \A i \in 1..Len(bcc) : \A h \in headers : ~Contains(h, bcc[i])

\* A message built for two recipients, two cc addresses and a bcc address.
C17_Witness ==
    /\ call.fn = "_create_email_message"
    /\ outcome # None
    /\ call.arg.request.bcc = Some(<<"d@example.com">>)
    /\ outcome[1].To = "a@example.com, b@example.com"
    /\ outcome[1].Cc = Some("c@example.com, e@example.com")

\* C18: get_email_by_id, get_email_history and check_smtp_connection leave
\* the history as it is, its length, its order and every field of every
\* entry, so that a second get_email_by_id(id) right after the first
\* returns the same data.
C18_ReadsLeaveHistory ==
    [][call.fn \in {"get_email_by_id", "get_email_history", "check_smtp_connection"} =>
          /\ Len(outcome') = Len(outcome) + 1
          /\ email_history' = email_history
          /\ (call.fn = "get_email_by_id" /\ Len(outcome') = 2) =>
                outcome'[2] = outcome'[1]]_vars

\* The same identifier was looked up twice in a history of three entries
\* and found both times.
C18_Witness ==
    /\ call.fn = "get_email_by_id"
    /\ Len(email_history) = 3
    /\ Len(outcome) = 2
    /\ outcome[1] = Some(email_history[2])
    /\ outcome[2] = Some(email_history[2])

\* The relay calls of a send that nothing interrupts.
ExpectedSend(cfg) ==
    <<"connect">>
        \o (IF cfg.use_tls THEN <<"starttls">> ELSE <<>>)
        \o (IF cfg.username # "" /\ cfg.password # "" THEN <<"login">> ELSE <<>>)
        \o <<"send_message", "quit">>

\* C19: within one send_email call the relay calls are connect, STARTTLS
\* exactly when use_tls is set, login exactly when username and password
\* are both non-empty, send_message, quit, in this order and each at most
\* once; when a call fails no later call is made and the send is not
\* retried.
C19_RelayStepsInOrder ==
    /\ [](\A t \in Tasks :
            LET steps == tasks[t].steps
            IN  /\ Len(steps) <= Len(ExpectedSend(config))
                /\ steps = SubSeq(ExpectedSend(config), 1, Len(steps))
                /\ \A i, j \in 1..Len(steps) : i # j => steps[i] # steps[j]
                /\ tasks[t].pc \in RelaySteps => steps[Len(steps)] = tasks[t].pc
                /\ tasks[t].raised # None =>
                      /\ tasks[t].pc = "responded"
                      /\ steps[Len(steps)] = tasks[t].raised[1].step
                /\ (tasks[t].pc = "responded" /\ tasks[t].raised = None) =>
                      steps = ExpectedSend(config))
    /\ [][\A t \in Tasks :
            /\ tasks[t].pc \in {"responded", "cancelled"} =>
                  /\ tasks'[t].steps = tasks[t].steps
                  /\ tasks'[t].pc = tasks[t].pc
            /\ tasks'[t].steps # tasks[t].steps =>
                  /\ Len(tasks'[t].steps) = Len(tasks[t].steps) + 1
                  /\ SubSeq(tasks'[t].steps, 1, Len(tasks[t].steps)) = tasks[t].steps]_vars

\* With TLS and credentials configured, one send made all five calls and
\* another stopped at the login that failed.
C19_Witness ==
    /\ config.use_tls /\ config.username # "" /\ config.password # ""
    /\ tasks[1].pc = "responded" /\ tasks[1].raised = None
    /\ tasks[1].steps = <<"connect", "starttls", "login", "send_message", "quit">>
    /\ tasks[2].raised # None
    /\ tasks[2].steps = <<"connect", "starttls", "login">>

\* C20: every history entry is appended with status pending, and its
\* status changes at most once, from pending to sent or from pending to
\* failed: sent and failed are final, and no entry is ever delivered.
C20_StatusTransitions ==
    /\ [](\A i \in 1..Len(email_history) :
            email_history[i].status \in {"pending", "sent", "failed"})
    /\ [][/\ Len(email_history') >= Len(email_history)
          /\ \A i \in 1..Len(email_history') :
                IF i > Len(email_history)
                THEN email_history'[i].status = "pending"
                ELSE email_history'[i].status # email_history[i].status =>
                        /\ email_history[i].status = "pending"
                        /\ email_history'[i].status \in {"sent", "failed"}]_vars

\* The first send ended sent and the second failed.
C20_Witness ==
    /\ Len(email_history) = 2
    /\ email_history[1].status = "sent"
    /\ email_history[2].status = "failed"
    /\ tasks[1].pc = "responded" /\ tasks[2].pc = "responded"

\* C21: every entry send_email appended eventually has status sent or
\* failed and its request eventually has a response, as long as the
\* handler task keeps being scheduled; no entry stays pending for ever,
\* also when the task is cancelled while it awaits the relay.
C21_EveryEntryConcludes ==
    \A t \in Tasks :
        (tasks[t].entry # 0) ~>
            (/\ tasks[t].entry # 0
             /\ email_history[tasks[t].entry].status \in {"sent", "failed"}
             /\ tasks[t].response # None)

\* C22: however concurrent send_email calls interleave at their awaits, no
\* update is lost: the history holds exactly one entry per call, a call
\* that concludes changes its own entry and no other, and the status,
\* sent_at and error_message of each entry are those of the response
\* returned for its message_id.
C22_NoLostUpdate ==
    /\ [](/\ Len(email_history) = Cardinality(Began)
          /\ \A t \in Began :
                /\ tasks[t].entry \in 1..Len(email_history)
                /\ email_history[tasks[t].entry].message_id = tasks[t].message_id
                /\ \A u \in Began : u # t => tasks[u].entry # tasks[t].entry
                /\ tasks[t].pc = "responded" =>
                      LET entry == email_history[tasks[t].entry]
                          response == tasks[t].response[1]
                      IN  /\ response.message_id = entry.message_id
                          /\ entry.status = response.status
                          /\ entry.sent_at = response.sent_at
                          /\ entry.error_message = response.error_message
                /\ tasks[t].pc # "responded" =>
                      email_history[tasks[t].entry].status = "pending")
    /\ [][\A i \in 1..Len(email_history) :
            email_history'[i] # email_history[i] =>
                \E t \in Tasks :
                    /\ tasks[t].entry = i
                    /\ tasks[t].pc \in RelaySteps
                    /\ tasks'[t].pc = "responded"
                    /\ \A j \in 1..Len(email_history) :
                          j # i => email_history'[j] = email_history[j]]_vars

\* Two sends overlapped, the first was recorded as sent after the second
\* had appended its entry, and the second failed.
C22_Witness ==
    /\ tasks[1].pc = "responded" /\ tasks[2].pc = "responded"
    /\ email_history[1].status = "sent"
    /\ email_history[1].sent_at[1] > email_history[2].created_at
    /\ email_history[2].status = "failed"
    /\ email_history[2].error_message = tasks[2].response[1].error_message

\* C23: no answer of GET /history or GET /history/{id} ever holds an entry
\* with status pending, also when it is served while a send awaits the
\* relay.
C23_NoPendingEntryServed ==
    /\ \A limit \in Limits :
          \A i \in 1..Len(HistoryAnswer(email_history, limit).entries) :
              HistoryAnswer(email_history, limit).entries[i].status # "pending"
    /\ \A id \in QueryIds :
          \A i \in 1..Len(ByIdAnswer(email_history, id).entries) :
              ByIdAnswer(email_history, id).entries[i].status # "pending"

\* What an entry keeps from the moment it is appended.
FixedFields(entry) ==
    [message_id |-> entry.message_id, to |-> entry.to, cc |-> entry.cc,
     bcc |-> entry.bcc, subject |-> entry.subject, body |-> entry.body,
     is_html |-> entry.is_html, created_at |-> entry.created_at]

\* C24: the history is append-only: its length never decreases, entries
\* keep their places, none is removed, and message_id, to, cc, bcc,
\* subject, body, is_html and created_at of an entry never change.
C24_HistoryIsAppendOnly ==
    [][/\ Len(email_history') >= Len(email_history)
       /\ Len(email_history') <= Len(email_history) + 1
       /\ \A i \in 1..Len(email_history) :
             FixedFields(email_history'[i]) = FixedFields(email_history[i])]_vars

\* The request with cc, bcc and an attachment failed, and a later send was
\* appended behind it.
C24_Witness ==
    /\ Len(email_history) = 2
    /\ email_history[1].status = "failed"
    /\ email_history[1].bcc = Some(<<"d@example.com">>)
    /\ email_history[1].body = "<p>Hi</p>"
    /\ email_history[2].status = "sent"


\* C27: a request whose only fault is one attachment fault of a single
\* sub-kind is answered by the sub-kind alone, whatever the path says: 413
\* for a file that is too large, 415 for a type that is not allowed.
C27_StatusBySubKindAlone ==
    \A t \in Tasks :
        (/\ tasks[t].pc = "rejected"
         /\ ~HasStructuralFault(tasks[t].raw[1])
         /\ ~HasAddressFault(tasks[t].raw[1])
         /\ tasks[t].raw[1].attachments # None) =>
            LET file_path == tasks[t].raw[1].attachments[1][1]
            IN  /\ file_path = LargePath => tasks[t].http = 413
                /\ file_path \in {ExePath, EmailExePath} => tasks[t].http = 415


\* The payloads of the attachment parts of `message`, in message order.
AttachedFiles(message) ==
    LET attached == SelectSeq(message.parts,
                              LAMBDA part : part.content_type = "application/octet-stream")
    IN  [i \in 1..Len(attached) |-> attached[i].payload]

\* C25: when a validated attachment cannot be read while the message is
\* built, the message carries parts for exactly the other attachments in
\* request order, the relay is contacted all the same, and the recorded
\* status and reason are those of the relay's outcome alone.
C25_SkippedAttachmentDoesNotFailSend ==
    \A t \in Began :
        LET request == tasks[t].request[1]
            skipped == {tasks[t].skipped[i] : i \in 1..Len(tasks[t].skipped)}
            entry == email_history[tasks[t].entry]
        IN  /\ AttachedFiles(tasks[t].message[1])
                  = SelectSeq(ListOf(request.attachments),
                              LAMBDA file_path : file_path \notin skipped)
            /\ tasks[t].steps # <<>> /\ tasks[t].steps[1] = "connect"
            /\ tasks[t].pc = "responded" =>
                  IF tasks[t].raised = None
                  THEN entry.status = "sent" /\ entry.error_message = None
                  ELSE /\ entry.status = "failed"
                       /\ entry.error_message = Some(tasks[t].raised[1].text)
                       /\ tasks[t].raised[1].step \in RelaySteps

\* A request with two attachments of which the first could not be read: the
\* message carries only the second, and the relay accepted it.
C25_Witness ==
    \E t \in Began :
        /\ tasks[t].request[1].attachments = Some(<<ReportPath, NotesPath>>)
        /\ tasks[t].skipped = <<ReportPath>>
        /\ AttachedFiles(tasks[t].message[1]) = <<NotesPath>>
        /\ tasks[t].pc = "responded"
        /\ email_history[tasks[t].entry].status = "sent"


\* C26: called directly, get_email_history(limit) returns the min(limit, n)
\* most recent entries for every limit >= 0; with limit 0 it returns none.
C26_DirectHistoryReturnsLastEntries ==
    (/\ call.fn = "get_email_history"
     /\ outcome # <<>>
     /\ call.arg >= 0) =>
        \A i \in 1..Len(outcome) : outcome[i] = LastEntries(email_history, call.arg)


\* C28: an entry is failed only if the relay did not accept the message:
\* once send_message has completed for a send, its entry ends sent, even if
\* the quit that follows fails.
C28_AcceptedMessageEndsSent ==
    \A t \in Tasks :
        (tasks[t].pc = "responded" /\ tasks[t].envelope # None) =>
            email_history[tasks[t].entry].status = "sent"


\* C30: the relay connection a send opened is closed by quit before the send
\* returns, when it succeeds and on every failure after connect.
C30_ConnectionClosedOnReturn ==
    \A t \in Tasks : tasks[t].pc = "responded" => tasks[t].conn \in {"none", "closed"}


\* sent_at is set (not None) exactly when the status is sent, error_message
\* exactly when it is failed.
TimesAndReasonsAgree(record) ==
    /\ record.sent_at # None <=> record.status = "sent"
    /\ record.error_message # None <=> record.status = "failed"

\* C29: in every reachable state every history entry has sent_at exactly
\* when it is sent and error_message exactly when it is failed, and so has
\* every response send_email returned.
C29_TimesAndReasonsAgree ==
    /\ \A i \in 1..Len(email_history) : TimesAndReasonsAgree(email_history[i])
    /\ \A t \in Tasks :
            tasks[t].response # None => TimesAndReasonsAgree(tasks[t].response[1])

\* One send answered sent and one answered failed, beside their entries.
C29_Witness ==
    /\ Len(email_history) = 2
    /\ tasks[1].pc = "responded" /\ tasks[1].response[1].status = "sent"
    /\ tasks[2].pc = "responded" /\ tasks[2].response[1].status = "failed"
    /\ email_history[tasks[1].entry].status = "sent"
    /\ email_history[tasks[2].entry].status = "failed"

====
